---- MODULE Spec2Model ----
(***************************************************************************)
(* A model of go-commuter (src/commutator.go): a Commuter owns a FIFO      *)
(* queue of operands and a commuting operation COp; the package drains the *)
(* queue sequentially (Dequeue, CollapseQueue, CompressQueue), across      *)
(* goroutines (PCollapseQueue in a fire-and-forget and a waiting variant,  *)
(* CCompressQueue), and shrinks it with a Commutator                       *)
(* (CommuterWithCommutator.CompressQueue).                                 *)
(*                                                                         *)
(* One caller goroutine makes one call of the package (and may drain with  *)
(* CollapseQueue after a Commutator compression); under Spec a producer    *)
(* goroutine (AggregateOp) and a consumer goroutine (Dequeue) run beside   *)
(* it, under SpecAlone only the workers its call spawns, under            *)
(* SpecProducer those and the producer, under SpecCollapse a CollapseQueue *)
(* and the producer; FairSpecAlone is SpecAlone under a fair scheduler.    *)
(* Every step is one access to the queue, one COp, or one statement of the *)
(* caller.  An unrecovered panic ends the Go program: every action         *)
(* requires fault = "none".                                                *)
(*                                                                         *)
(* The Commuter is an interface: its COp is modelled as the accumulating   *)
(* COp of the source's own example (an unchecked type assertion on the     *)
(* operand, then arithmetic on the base value), its Commutator as the      *)
(* example's i1 + i2.  Pop on an empty queue is left open by the           *)
(* interface: it panics, returns the nil interface value, or blocks (a     *)
(* blocked Pop is a stuttering step).                                      *)
(***************************************************************************)
EXTENDS Integers, Sequences, FiniteSets, TLC

\* ---------------------------------------------------------------- bounds
MaxLen == 4
MaxVal == 2
MaxWorkers == 3
MaxOps == 2
MaxSpare == 1
MaxPush == 1
MaxDeq == 1

\* The nil interface value (a Pop on an empty queue, a slot beyond a slice's length).
Nil == 0

Operand == 1..MaxVal

RECURSIVE SeqsUpTo(_)
SeqsUpTo(n) ==
    IF n = 0 THEN {<<>>}
    ELSE SeqsUpTo(n - 1) \cup [1..n -> Operand]

RECURSIVE Sum(_)
Sum(s) == IF s = <<>> THEN 0 ELSE Head(s) + Sum(Tail(s))

\* A run of k nil slots: the part of a slice's capacity beyond its length.
NilPad(k) == [x \in 1..k |-> Nil]

\* ------------------------------------------------------- the Commuter
\* An argument handed to COp: one operand (one = TRUE, items = <<x>>) or,
\* as CollapseQueue passes it, a whole slice (one = FALSE).
OneArg(x) == [one |-> TRUE, items |-> <<x>>]

BatchArg(q) == [one |-> FALSE, items |-> q]

\* i.(T) of the example COp succeeds on an operand only.
IsOperandArg(a) == a.one /\ a.items[1] # Nil

\* COp's effect on the shared state: baseValue OP i.(T), here accumulation.
COpState(st, a) == IF IsOperandArg(a) THEN st + a.items[1] ELSE st

\* COp's failed type assertion panics.
COpFault(a) == IF IsOperandArg(a) THEN "none" ELSE "typeAssert"

\* Push appends to the tail.
Push(q, x) == Append(q, x)

\* Pop removes the oldest operand.
PopRest(q) == Tail(q)

PopValue(q) == Head(q)

\* GetQueueLength, QueueLength.
GetQueueLength(q) == Len(q)

\* The example Commutator: i1 + i2.
Commutator(i1, i2) == i1 + i2

\* Go's integer division truncates toward zero.
GoDiv(a, b) ==
    IF (a >= 0) = (b > 0) THEN (IF a >= 0 THEN a ELSE -a) \div (IF b > 0 THEN b ELSE -b)
    ELSE -((IF a >= 0 THEN a ELSE -a) \div (IF b > 0 THEN b ELSE -b))

\* ------------------------------------------------------------- state
VARIABLES
    queue,      \* the Commuter's queue, oldest operand first
    state,      \* the shared state COp accumulates into
    applied,    \* the COp invocations since the current call began: [by, arg]
    pc,         \* the caller's position
    op,         \* the current call: its name, arguments and locals
    workers,    \* the goroutines spawned by PCollapseQueue
    fault,      \* "none", or the panic that ended the program
    q0,         \* the queue when the current call began
    state0,     \* the shared state when the current call began
    interfered, \* another goroutine has acted since the current call began
    pushedSum,  \* the sum of every operand ever pushed by a producer
    pushLog,    \* the operands the producer goroutine has pushed, in push order
    pushLeft,   \* AggregateOp calls the producer has left
    deqLeft,    \* Dequeue calls the consumer has left
    cheld,      \* the operand the consumer has popped and not yet applied
    prevOp      \* the name of the call before the current one

vars == <<queue, state, applied, pc, op, workers, fault, q0, state0,
          interfered, pushedSum, pushLog, pushLeft, deqLeft, cheld, prevOp>>

NoOp ==
    [name |-> "none", nw |-> 0, d |-> 0, n |-> 0, wait |-> FALSE,
     l |-> 0, s |-> 0, q |-> <<>>, i |-> 0, held |-> <<>>, wg |-> 0, r0 |-> 0,
     p0 |-> 0]

Init ==
    /\ queue \in SeqsUpTo(MaxLen)
    /\ state = 0
    /\ applied = <<>>
    /\ pc = "idle"
    /\ op = NoOp
    /\ workers = <<>>
    /\ fault = "none"
    /\ q0 = queue
    /\ state0 = 0
    /\ interfered = FALSE
    /\ pushedSum = Sum(queue)
    /\ pushLog = <<>>
    /\ pushLeft = MaxPush
    /\ deqLeft = MaxDeq
    /\ cheld = <<>>
    /\ prevOp = "none"

Running == fault = "none"

\* The caller's program: one call of the package; after the Commutator's
\* CompressQueue has returned it may go on to drain with CollapseQueue.
CanCall == Running /\ pc = "idle"

CanDrain == Running /\ pc = "ret" /\ op.name = "CommCompressQueue"

\* What every call does on entry: the bookkeeping of the pass that begins.
Begin(name, first, nw, d, n, wait) ==
    /\ pc' = first
    /\ op' = [NoOp EXCEPT !.name = name, !.nw = nw, !.d = d, !.n = n, !.wait = wait]
    /\ prevOp' = op.name
    /\ q0' = queue
    /\ state0' = state
    /\ applied' = <<>>
    /\ interfered' = FALSE
    /\ UNCHANGED <<queue, state, workers, fault, pushedSum, pushLog, pushLeft,
                   deqLeft, cheld>>

\* One COp invocation, by the current call's pass ("pass": the caller and the
\* workers it spawned) or by the consumer goroutine ("consumer").
COpLogged(who, a) ==
    /\ applied' = Append(applied, [by |-> who, arg |-> a])
    /\ state' = COpState(state, a)
    /\ fault' = COpFault(a)

\* The COp arguments of the current call's pass, in invocation order.
PassArgs == [k \in 1..Len(SelectSeq(applied, LAMBDA e : e.by = "pass")) |->
                SelectSeq(applied, LAMBDA e : e.by = "pass")[k].arg]

\* ------------------------------------------------ producer and consumer
\* AggregateOp: c.Enqueue(i).
AggregateOp ==
    /\ Running
    /\ pushLeft > 0
    /\ \E v \in Operand :
        /\ queue' = Push(queue, v)
        /\ pushedSum' = pushedSum + v
        /\ pushLog' = Append(pushLog, v)
    /\ pushLeft' = pushLeft - 1
    /\ interfered' = TRUE
    /\ UNCHANGED <<state, applied, pc, op, workers, fault, q0, state0,
                   deqLeft, cheld, prevOp>>

\* The consumer goroutine's Dequeue: the Pop of c.COp(c.Pop()).
ConsumerPop ==
    /\ Running
    /\ deqLeft > 0
    /\ cheld = <<>>
    /\ deqLeft' = deqLeft - 1
    /\ interfered' = TRUE
    /\ \/ /\ queue # <<>>
          /\ cheld' = <<PopValue(queue)>>
          /\ queue' = PopRest(queue)
          /\ fault' = fault
       \/ /\ queue = <<>>
          /\ cheld' = <<Nil>>
          /\ UNCHANGED <<queue, fault>>
       \/ /\ queue = <<>>
          /\ fault' = "emptyPop"
          /\ UNCHANGED <<queue, cheld>>
    /\ UNCHANGED <<state, applied, pc, op, workers, q0, state0,
                   pushedSum, pushLog, pushLeft, prevOp>>

\* The consumer goroutine's Dequeue: the COp of c.COp(c.Pop()).
ConsumerCOp ==
    /\ Running
    /\ cheld # <<>>
    /\ COpLogged("consumer", OneArg(cheld[1]))
    /\ cheld' = <<>>
    /\ interfered' = TRUE
    /\ UNCHANGED <<queue, pc, op, workers, q0, state0,
                   pushedSum, pushLog, pushLeft, deqLeft, prevOp>>

\* What a step of the caller or of a worker leaves alone besides what it names.
Frame == UNCHANGED <<q0, state0, interfered, pushedSum, pushLog, pushLeft, deqLeft,
                     cheld, prevOp>>

\* ------------------------------------------------------------ Dequeue
CallDequeue == CanCall /\ Begin("Dequeue", "dq_pop", 0, 0, 0, FALSE)

\* c.Pop() of Dequeue, by the caller (directly or inside CompressQueue).
DQ_Pop ==
    /\ Running
    /\ pc = "dq_pop"
    /\ \/ /\ queue # <<>>
          /\ op' = [op EXCEPT !.held = <<PopValue(queue)>>]
          /\ queue' = PopRest(queue)
          /\ pc' = "dq_cop"
          /\ fault' = fault
       \/ /\ queue = <<>>
          /\ op' = [op EXCEPT !.held = <<Nil>>]
          /\ pc' = "dq_cop"
          /\ UNCHANGED <<queue, fault>>
       \/ /\ queue = <<>>
          /\ fault' = "emptyPop"
          /\ UNCHANGED <<queue, op, pc>>
    /\ UNCHANGED <<state, applied, workers>>
    /\ Frame

\* Where Dequeue returns to: CompressQueue's loop test, or the caller.
AfterDequeue == IF op.name = "CompressQueue" THEN "cq_check" ELSE "ret"

\* c.COp(...) of Dequeue.
DQ_COp ==
    /\ Running
    /\ pc = "dq_cop"
    /\ COpLogged("pass", OneArg(op.held[1]))
    /\ op' = [op EXCEPT !.held = <<>>]
    /\ pc' = IF COpFault(OneArg(op.held[1])) = "none" THEN AfterDequeue ELSE pc
    /\ UNCHANGED <<queue, workers>>
    /\ Frame

\* ------------------------------------------------------ CollapseQueue
CallCollapseQueue ==
    (CanCall \/ CanDrain) /\ Begin("CollapseQueue", "cl_empty", 0, 0, 0, FALSE)

\* EmptyQueue returns the data to be operated on and empties the queue.
EmptyQueueReturns(q) == q

EmptyQueueLeaves(q) == <<>>

\* A CollapseQueue that reads the contents and leaves them in the queue.
CL_PeekQueue ==
    /\ Running
    /\ pc = "cl_empty"
    /\ op' = [op EXCEPT !.q = EmptyQueueReturns(queue), !.i = 0,
                        !.p0 = Len(pushLog)]
    /\ pc' = "cl_loop"
    /\ UNCHANGED <<queue, state, applied, workers, fault>>
    /\ Frame

\* q := c.EmptyQueue().
CL_EmptyQueue ==
    /\ Running
    /\ pc = "cl_empty"
    /\ op' = [op EXCEPT !.q = EmptyQueueReturns(queue), !.i = 0,
                        !.p0 = Len(pushLog)]
    /\ queue' = EmptyQueueLeaves(queue)
    /\ pc' = "cl_loop"
    /\ UNCHANGED <<state, applied, workers, fault>>
    /\ Frame

\* The argument of the loop body's COp call: c.COp(q), the detached slice itself.
CollapseArg(q, i) == BatchArg(q)

\* for _, i := range q { c.COp(q) }: one iteration.
CL_COp ==
    /\ Running
    /\ pc = "cl_loop"
    /\ op.i < Len(op.q)
    /\ COpLogged("pass", CollapseArg(op.q, op.i))
    /\ op' = IF COpFault(CollapseArg(op.q, op.i)) = "none"
             THEN [op EXCEPT !.i = op.i + 1] ELSE op
    /\ UNCHANGED <<queue, pc, workers>>
    /\ Frame

\* The range loop is over: CollapseQueue returns.
CL_Return ==
    /\ Running
    /\ pc = "cl_loop"
    /\ op.i >= Len(op.q)
    /\ pc' = "ret"
    /\ UNCHANGED <<queue, state, applied, op, workers, fault>>
    /\ Frame

\* ------------------------------------------- CompressQueue(desiredLength)
CallCompressQueue ==
    CanCall /\ \E d \in -1..MaxLen : Begin("CompressQueue", "cq_check", 0, d, 0, FALSE)

\* The loop test off by one: it dequeues at the target length too.
CompressMoreOffByOne(len, d) == len >= d

\* The loop test: c.QueueLength() > desiredLength.
CompressMore(len, d) == len > d

\* for c.QueueLength() > desiredLength { c.Dequeue() }: the test.
CQ_Check ==
    /\ Running
    /\ pc = "cq_check"
    /\ pc' = IF CompressMore(GetQueueLength(queue), op.d) THEN "dq_pop" ELSE "ret"
    /\ UNCHANGED <<queue, state, applied, op, workers, fault>>
    /\ Frame

\* ----------------------- CommuterWithCommutator.CompressQueue(numOps)
CallCommCompressQueue ==
    CanCall /\ \E n \in -1..MaxOps : Begin("CommCompressQueue", "cc_loop", 0, 0, n, FALSE)

\* for i := 0; i < numOps; i++: the test; r0 notes the length the round begins with.
CC_Loop ==
    /\ Running
    /\ pc = "cc_loop"
    /\ pc' = IF op.i < op.n THEN "cc_pop1" ELSE "ret"
    /\ op' = [op EXCEPT !.r0 = Len(queue)]
    /\ UNCHANGED <<queue, state, applied, workers, fault>>
    /\ Frame

\* i1 := c.Commuter.Pop() and i2 := c.Commuter.Pop(): one Pop each step.
CC_Pop ==
    /\ Running
    /\ pc \in {"cc_pop1", "cc_pop2"}
    /\ \/ /\ queue # <<>>
          /\ op' = [op EXCEPT !.held = Append(op.held, PopValue(queue))]
          /\ queue' = PopRest(queue)
          /\ pc' = IF pc = "cc_pop1" THEN "cc_pop2" ELSE "cc_push"
          /\ fault' = fault
       \/ /\ queue = <<>>
          /\ op' = [op EXCEPT !.held = Append(op.held, Nil)]
          /\ pc' = IF pc = "cc_pop1" THEN "cc_pop2" ELSE "cc_push"
          /\ UNCHANGED <<queue, fault>>
       \/ /\ queue = <<>>
          /\ fault' = "emptyPop"
          /\ UNCHANGED <<queue, op, pc>>
    /\ UNCHANGED <<state, applied, workers>>
    /\ Frame

\* A round that pushes its two operands back unmerged.
PushUnmerged(q, i1, i2) == Push(Push(q, i1), i2)

\* The queue after c.Push(c.Commutator(i1, i2)).
PushMerged(q, i1, i2) == Push(q, Commutator(i1, i2))

\* c.Push(c.Commutator(i1, i2)); the Commutator's type assertion panics on nil.
CC_Push ==
    /\ Running
    /\ pc = "cc_push"
    /\ IF op.held[1] # Nil /\ op.held[2] # Nil
       THEN /\ queue' = PushMerged(queue, op.held[1], op.held[2])
            /\ op' = [op EXCEPT !.held = <<>>, !.i = op.i + 1]
            /\ pc' = "cc_loop"
            /\ fault' = fault
       ELSE /\ fault' = "typeAssert"
            /\ UNCHANGED <<queue, op, pc>>
    /\ UNCHANGED <<state, applied, workers>>
    /\ Frame

\* ----------------------------------------------------- PCollapseQueue
\* The fire-and-forget variant (wait = FALSE) and the waiting variant (wait = TRUE).
CallPCollapseQueue ==
    CanCall /\ \E nw \in -1..MaxWorkers, wait \in BOOLEAN :
        Begin("PCollapseQueue", "pc_len", nw, 0, 0, wait)

\* l := c.GetQueueLength().
PC_Len ==
    /\ Running
    /\ pc = "pc_len"
    /\ op' = [op EXCEPT !.l = GetQueueLength(queue)]
    /\ pc' = "pc_div"
    /\ UNCHANGED <<queue, state, applied, workers, fault>>
    /\ Frame

\* The slice size: s := l / numWorkers.
SliceSize(l, nw) == GoDiv(l, nw)

\* s := l / numWorkers; an integer division by zero panics.
PC_Div ==
    /\ Running
    /\ pc = "pc_div"
    /\ IF op.nw = 0
       THEN /\ fault' = "divzero"
            /\ UNCHANGED <<op, pc>>
       ELSE /\ op' = [op EXCEPT !.s = SliceSize(op.l, op.nw)]
            /\ pc' = "pc_queue"
            /\ fault' = fault
    /\ UNCHANGED <<queue, state, applied, workers>>
    /\ Frame

\* c.Queue() is called and nowhere defined: as the specification has it, it
\* detaches the current contents, in order, and leaves the queue empty.
QueueContents(q) == q

QueueLeft(q) == <<>>

\* q := c.Queue(); the slice's capacity may exceed its length, the slots beyond
\* it holding nil.
PC_Queue ==
    /\ Running
    /\ pc = "pc_queue"
    /\ \E spare \in 0..MaxSpare :
        op' = [op EXCEPT !.q = QueueContents(queue) \o NilPad(spare), !.i = 0,
                         !.p0 = Len(pushLog)]
    /\ queue' = QueueLeft(queue)
    /\ pc' = "pc_spawn"
    /\ UNCHANGED <<state, applied, workers, fault>>
    /\ Frame

\* The number of goroutines the loop launches: for i := 0; i < s; i++.
SpawnCount(s, nw) == s

\* The slice expression q[i*s : (i+1)*s] is in range up to the capacity.
SliceInRange(q, i, s) == (i + 1) * s <= Len(q)

\* q[i*s : (i+1)*s].
SliceOf(q, i, s) == SubSeq(q, i * s + 1, (i + 1) * s)

\* One iteration of the spawning loop: wg.Add(1) (waiting variant) and the go
\* statement, whose argument is evaluated by the caller.
PC_Spawn ==
    /\ Running
    /\ pc = "pc_spawn"
    /\ op.i < SpawnCount(op.s, op.nw)
    /\ IF SliceInRange(op.q, op.i, op.s)
       THEN /\ workers' = Append(workers,
                    [slice |-> SliceOf(op.q, op.i, op.s),
                     pos |-> 1, done |-> FALSE, wait |-> op.wait])
            /\ op' = [op EXCEPT !.i = op.i + 1,
                                !.wg = IF op.wait THEN op.wg + 1 ELSE op.wg]
            /\ fault' = fault
       ELSE /\ fault' = "sliceBounds"
            /\ UNCHANGED <<workers, op>>
    /\ UNCHANGED <<queue, state, applied, pc>>
    /\ Frame

\* The spawning loop is over: the waiting variant goes on to wg.Wait(), the
\* other returns.
PC_LoopExit ==
    /\ Running
    /\ pc = "pc_spawn"
    /\ op.i >= SpawnCount(op.s, op.nw)
    /\ pc' = IF op.wait THEN "pc_wait" ELSE "ret"
    /\ UNCHANGED <<queue, state, applied, op, workers, fault>>
    /\ Frame

\* A Wait that does not wait for the counter.
WaitReadyNoWait(wg) == TRUE

\* wg.Wait() returns when the counter is zero.
WaitReady(wg) == wg = 0

\* wg.Wait(), then the return.
PC_Wait ==
    /\ Running
    /\ pc = "pc_wait"
    /\ WaitReady(op.wg)
    /\ pc' = "ret"
    /\ UNCHANGED <<queue, state, applied, op, workers, fault>>
    /\ Frame

\* for _, i := range is { c.COp(i) }: one iteration, by worker w.
WorkerCOp(w) ==
    /\ Running
    /\ ~workers[w].done
    /\ workers[w].pos <= Len(workers[w].slice)
    /\ COpLogged("pass", OneArg(workers[w].slice[workers[w].pos]))
    /\ workers' = [workers EXCEPT ![w].pos = @ + 1]
    /\ UNCHANGED <<queue, pc, op>>
    /\ Frame

\* Worker w's range loop is over: the deferred wg.Done() runs (waiting variant)
\* and the goroutine ends.
WorkerExit(w) ==
    /\ Running
    /\ ~workers[w].done
    /\ workers[w].pos > Len(workers[w].slice)
    /\ workers' = [workers EXCEPT ![w].done = TRUE]
    /\ op' = IF workers[w].wait THEN [op EXCEPT !.wg = op.wg - 1] ELSE op
    /\ UNCHANGED <<queue, state, applied, pc, fault>>
    /\ Frame

Worker == \E w \in 1..Len(workers) : WorkerCOp(w) \/ WorkerExit(w)

\* ----------------------------------------------------- CCompressQueue
CallCCompressQueue ==
    CanCall /\ \E d \in -1..MaxLen, nw \in -1..MaxWorkers :
        Begin("CCompressQueue", "ccq_len", nw, d, 0, FALSE)

\* numOps := c.QueueLength() - desiredLength.
CCQ_Len ==
    /\ Running
    /\ pc = "ccq_len"
    /\ op' = [op EXCEPT !.n = GetQueueLength(queue) - op.d]
    /\ pc' = "ccq_counter"
    /\ UNCHANGED <<queue, state, applied, workers, fault>>
    /\ Frame

\* var j *int; *j = 0: j is nil, and the store through it panics before any
\* goroutine is launched.
CCQ_Counter ==
    /\ Running
    /\ pc = "ccq_counter"
    /\ fault' = "nilDeref"
    /\ UNCHANGED <<queue, state, applied, pc, op, workers>>
    /\ Frame

\* -------------------------------------------------------- the program
\* The caller's goroutine and the workers its calls spawn.
NextAlone ==
    \/ CallDequeue
    \/ DQ_Pop
    \/ DQ_COp
    \/ CallCollapseQueue
    \/ CL_EmptyQueue
    \/ CL_COp
    \/ CL_Return
    \/ CallCompressQueue
    \/ CQ_Check
    \/ CallCommCompressQueue
    \/ CC_Loop
    \/ CC_Pop
    \/ CC_Push
    \/ CallPCollapseQueue
    \/ PC_Len
    \/ PC_Div
    \/ PC_Queue
    \/ PC_Spawn
    \/ PC_LoopExit
    \/ PC_Wait
    \/ Worker
    \/ CallCCompressQueue
    \/ CCQ_Len
    \/ CCQ_Counter

\* The same beside a producer goroutine and a consumer goroutine.
Next ==
    \/ NextAlone
    \/ AggregateOp
    \/ ConsumerPop
    \/ ConsumerCOp

\* The caller beside a producer goroutine only.
NextProducer ==
    \/ NextAlone
    \/ AggregateOp

\* The caller with no other goroutine using the Commuter.
SpecAlone == Init /\ [][NextAlone]_vars

\* The same program under a fair scheduler: a goroutine that can take a step
\* eventually takes one.
FairSpecAlone == SpecAlone /\ WF_vars(NextAlone)

\* The caller beside a producer.
SpecProducer == Init /\ [][NextProducer]_vars

\* A caller that calls CollapseQueue, beside a producer.
NextCollapse ==
    \/ CallCollapseQueue
    \/ CL_EmptyQueue
    \/ CL_COp
    \/ CL_Return
    \/ AggregateOp

SpecCollapse == Init /\ [][NextCollapse]_vars

\* The caller beside a producer and a consumer.
Spec == Init /\ [][Next]_vars

\* ------------------------------------------------- what the claims use
\* The operands of q, each as the argument of one COp invocation.
Singles(q) == [k \in 1..Len(q) |-> OneArg(q[k])]

Count(s, x) == Cardinality({k \in 1..Len(s) : s[k] = x})

Range(s) == {s[k] : k \in 1..Len(s)}

\* a and b hold the same elements the same number of times.
SameBag(a, b) ==
    /\ Len(a) = Len(b)
    /\ \A x \in Range(a) \cup Range(b) : Count(a, x) = Count(b, x)

AllWorkersDone ==
    \A w \in 1..Len(workers) :
        workers[w].done /\ workers[w].pos > Len(workers[w].slice)

\* How the current call has ended, if it has.
Outcome ==
    IF fault # "none" THEN fault
    ELSE IF pc = "ret" THEN "returned" ELSE "running"

InWaitingPCollapse == op.name = "PCollapseQueue" /\ op.wait

\* C1: once the waiting PCollapseQueue(numWorkers) has returned, with
\* 1 <= numWorkers <= L and nothing else using the queue, COp has been applied
\* exactly once to each of the L operands present at call time.
C1_PartitionCompleteness ==
    (InWaitingPCollapse /\ 1 <= op.nw /\ op.nw <= Len(q0) /\ ~interfered /\ pc = "ret")
        => SameBag(PassArgs, Singles(q0))

\* C2: after CollapseQueue returns (no concurrent pushes) the queue is empty and
\* COp has been invoked once per operand present at call time, each invocation
\* receiving that single operand, in FIFO order.
C2_DrainCompleteness ==
    (op.name = "CollapseQueue" /\ ~interfered)
        => /\ \A k \in 1..Len(PassArgs) : k <= Len(q0) /\ PassArgs[k] = OneArg(q0[k])
           /\ pc = "ret" => (queue = <<>> /\ PassArgs = Singles(q0))

\* C3: when the waiting PCollapseQueue has returned, every worker it spawned has
\* finished: none has an operand of its slice left to apply, none is still running.
C3_WaitBarrier ==
    (InWaitingPCollapse /\ pc = "ret") => (AllWorkersDone /\ op.wg = 0)

\* C3's case: the waiting variant has returned after two workers each applied
\* the two operands of their slices.
C3_Witness ==
    /\ InWaitingPCollapse
    /\ pc = "ret"
    /\ Len(workers) = 2
    /\ \A w \in 1..Len(workers) : Len(workers[w].slice) = 2
    /\ Len(PassArgs) = 4

\* C4: CCompressQueue(desiredLength, numWorkers) with numOps = length -
\* desiredLength > 0 performs exactly numOps Dequeues: it runs without a fault,
\* never dequeues more than numOps operands, never drains the queue below
\* desiredLength, and leaves it at desiredLength once its workers have stopped.
C4_CompressExactly ==
    (op.name = "CCompressQueue" /\ op.nw >= 1 /\ Len(q0) - op.d > 0 /\ ~interfered)
        => /\ fault = "none"
           /\ Len(PassArgs) <= Len(q0) - op.d
           /\ Len(queue) >= op.d
           /\ (pc = "ret" /\ AllWorkersDone) => Len(queue) = op.d

\* C5: the sequential CompressQueue(desiredLength), desiredLength >= 0, with
\* nothing else using the queue: from a longer queue it returns with the length
\* at most desiredLength, having applied COp to exactly the (length -
\* desiredLength) oldest operands, in order; from a queue already that short it is
\* a no-op that leaves the queue and the shared state unchanged.
C5_CompressionLengthLaw ==
    (op.name = "CompressQueue" /\ op.d >= 0 /\ ~interfered)
        => /\ fault = "none"
           /\ pc = "ret" =>
                IF Len(q0) > op.d
                THEN /\ Len(queue) <= op.d
                     /\ PassArgs = Singles(SubSeq(q0, 1, Len(q0) - op.d))
                     /\ queue = SubSeq(q0, Len(q0) - op.d + 1, Len(q0))
                     /\ state = state0 + Sum(SubSeq(q0, 1, Len(q0) - op.d))
                ELSE /\ queue = q0
                     /\ state = state0
                     /\ PassArgs = <<>>

\* C5's case: CompressQueue has returned after dequeuing at least two operands
\* down to a positive target length.
C5_Witness ==
    /\ op.name = "CompressQueue"
    /\ pc = "ret"
    /\ op.d >= 1
    /\ Len(q0) >= op.d + 2
    /\ Len(PassArgs) = Len(q0) - op.d

\* C6: each round of CommuterWithCommutator.CompressQueue pops two operands and
\* pushes one, so the length falls by exactly 1 a round, and COp is never
\* invoked; after numOps rounds on a queue of length L >= 2*numOps, nothing else
\* using it, the length is L - numOps.
C6_CompressorShrinkLaw ==
    (op.name = "CommCompressQueue" /\ op.n >= 0 /\ Len(q0) >= 2 * op.n /\ ~interfered)
        => /\ fault = "none"
           /\ PassArgs = <<>>
           /\ state = state0
           /\ pc \in {"cc_loop", "cc_pop1", "ret"} => Len(queue) = Len(q0) - op.i
           /\ pc = "cc_pop2" => Len(queue) = Len(q0) - op.i - 1
           /\ pc = "cc_push" => Len(queue) = Len(q0) - op.i - 2
           /\ pc = "ret" => (op.i = op.n /\ Len(queue) = Len(q0) - op.n)

\* C6's case: two rounds have run on a queue of four operands and the call has
\* returned.
C6_Witness ==
    /\ op.name = "CommCompressQueue"
    /\ pc = "ret"
    /\ op.n = 2
    /\ Len(q0) = 4
    /\ Len(queue) = 2

\* C7: with the additive COp and Commutator, the sum of the queue's contents
\* (and of the round's popped operands) is the same after every step of a
\* compression round that began with two operands, and a CollapseQueue that
\* follows the compression ends with the shared state equal to the state every
\* originally pushed operand, applied once, gives.
C7_AggregatePreserved ==
    /\ (op.name = "CommCompressQueue" /\ ~interfered /\ fault = "none")
            => Sum(queue) + Sum(op.held) = Sum(q0)
    /\ (op.name = "CollapseQueue" /\ prevOp = "CommCompressQueue" /\ ~interfered)
            => /\ fault = "none"
               /\ pc = "ret" => state = pushedSum

\* C8: while CommuterWithCommutator.CompressQueue runs beside a producer and a
\* consumer, no operand is lost or consumed twice: every pushed operand is
\* accounted for once in the shared state, the queue or an operand in flight, and
\* a round that began with two operands pops two operands, never the nil of an
\* empty queue, so that their merge can be pushed back.
C8_NoOperandLost ==
    /\ (op.name = "CommCompressQueue" /\ fault = "none")
            => state + Sum(queue) + Sum(op.held) + Sum(cheld) = pushedSum
    /\ (op.name = "CommCompressQueue" /\ op.r0 >= 2
            /\ pc \in {"cc_pop1", "cc_pop2", "cc_push"})
            => \A k \in 1..Len(op.held) : op.held[k] # Nil

\* C9: a PCollapseQueue (either variant) or CCompressQueue call with
\* numWorkers <= 0 ends in the explicit InvalidWorkerCountError outcome, with no
\* worker spawned, no COp invoked and the queue unchanged.
C9_InvalidWorkerCount ==
    (op.name \in {"PCollapseQueue", "CCompressQueue"} /\ op.nw <= 0 /\ ~interfered)
        => /\ Outcome \in {"running", "InvalidWorkerCountError"}
           /\ workers = <<>>
           /\ PassArgs = <<>>
           /\ queue = q0

\* C10: PCollapseQueue(numWorkers) with numWorkers > L does not fail and, once it
\* has returned and its workers have finished, has applied COp exactly once to
\* each of the L operands present at call time.
C10_MoreWorkersThanOperands ==
    (op.name = "PCollapseQueue" /\ op.nw > Len(q0) /\ ~interfered)
        => /\ fault = "none"
           /\ (pc = "ret" /\ AllWorkersDone) => SameBag(PassArgs, Singles(q0))

\* C11: a round of CommuterWithCommutator.CompressQueue that begins with fewer
\* than two operands ends in the explicit insufficient-operands failure, and the
\* compressor never executes Pop on an empty queue (no panic of Pop, no nil
\* popped).
C11_InsufficientOperands ==
    (op.name = "CommCompressQueue" /\ ~interfered)
        => /\ fault # "emptyPop"
           /\ \A k \in 1..Len(op.held) : op.held[k] # Nil
           /\ (op.r0 < 2 /\ pc \in {"cc_pop2", "cc_push"})
                => Outcome = "InsufficientOperandsError"

\* C12: Dequeue on an empty queue ends as EmptyQueueError or as a no-op: the
\* queue and the shared state stay as they were and COp is never invoked with
\* the result of the Pop.
C12_DequeueOnEmpty ==
    (op.name = "Dequeue" /\ q0 = <<>> /\ ~interfered)
        => /\ PassArgs = <<>>
           /\ queue = q0
           /\ state = state0
           /\ fault # "typeAssert"

\* C13: CompressQueue and CCompressQueue called with a negative desiredLength
\* fail fast with a descriptive error: no fault, no operand dequeued, no Pop on
\* an empty queue.
C13_NegativeTargetLength ==
    (op.name \in {"CompressQueue", "CCompressQueue"} /\ op.d < 0 /\ ~interfered)
        => /\ fault = "none"
           /\ op.held = <<>>
           /\ PassArgs = <<>>
           /\ queue = q0
           /\ pc = "ret" => Outcome = "NegativeLengthError"

\* The operands the producer has pushed since the current call's detachment.
PushedSinceDetach == SubSeq(pushLog, op.p0 + 1, Len(pushLog))

OperandsOf(q) == SelectSeq(q, LAMBDA x : x # Nil)

\* C15: CCompressQueue with desiredLength greater than or equal to the current
\* queue length is a no-op: the call goes on without a panic, no Dequeue hands
\* anything to COp, and the queue and the shared state are as they were.
C15_CompressNoOp ==
    (op.name = "CCompressQueue" /\ op.d >= Len(q0) /\ ~interfered)
        => /\ fault = "none"
           /\ PassArgs = <<>>
           /\ queue = q0
           /\ state = state0

\* C16: PCollapseQueue's snapshot is one atomic detachment: the length L the
\* slice size is computed from is the number of operands in the sequence that
\* is partitioned, and the queue holds exactly the operands pushed since.
C16_AtomicSnapshot ==
    (op.name = "PCollapseQueue" /\ pc \in {"pc_spawn", "pc_wait", "ret"})
        => /\ op.l = Len(OperandsOf(op.q))
           /\ queue = PushedSinceDetach

\* C17: once its spawning loop is over, PCollapseQueue(numWorkers) with
\* numWorkers >= 1 has launched exactly numWorkers workers, each on a slice of
\* floor(L / numWorkers) operands.
C17_LaunchesNumWorkers ==
    (op.name = "PCollapseQueue" /\ op.nw >= 1 /\ pc \in {"pc_wait", "ret"})
        => /\ Len(workers) = op.nw
           /\ \A w \in 1..Len(workers) :
                Len(workers[w].slice) = SliceSize(op.l, op.nw)

\* C18: CCompressQueue terminates: called with numWorkers >= 1 and
\* numOps >= 0, under fair scheduling it eventually returns.
C18_CCompressTerminates ==
    (op.name = "CCompressQueue" /\ pc = "ccq_counter" /\ op.nw >= 1 /\ op.n >= 0)
        ~> (op.name = "CCompressQueue" /\ pc = "ret")

\* C19: every slice PCollapseQueue hands to a worker is in range: with
\* numWorkers >= 1, for each index i its loop iterates over, (i+1)*s is at most
\* the length L of the partitioned sequence, and no slice expression panics.
C19_SliceBoundsValid ==
    (op.name = "PCollapseQueue" /\ op.nw >= 1 /\ ~interfered)
        => /\ fault # "sliceBounds"
           /\ (pc = "pc_spawn" /\ op.i < SpawnCount(op.s, op.nw))
                => (op.i + 1) * op.s <= op.l

====
